---------------------------- MODULE Spec2Model ----------------------------
(***************************************************************************)
(* Model of src/app.py: payslip extraction.                                *)
(*                                                                         *)
(* A Python str is a sequence of one-character strings; a page text holds  *)
(* "\n" characters and is cut into lines by SplitLines, as str.splitlines  *)
(* does.  A float is a pair <<n, k>> standing for n / 10^k, kept canonical *)
(* (no trailing zero decimal), so equal amounts are equal values.          *)
(***************************************************************************)
EXTENDS Integers, Sequences, FiniteSets, TLC

(***************************************************************************)
(* Characters and the str methods the source uses.                         *)
(***************************************************************************)
Whitespace == {" ", "\t", "\n"}

Digits == <<"0","1","2","3","4","5","6","7","8","9">>

DigitSet == {Digits[i] : i \in 1..10}

Lowers == <<"a","b","c","d","e","f","g","h","i","j","k","l","m","n","o","p",
            "q","r","s","t","u","v","w","x","y","z","ç","ã","ê">>

Uppers == <<"A","B","C","D","E","F","G","H","I","J","K","L","M","N","O","P",
            "Q","R","S","T","U","V","W","X","Y","Z","Ç","Ã","Ê">>

AsciiLetters == {Lowers[i] : i \in 1..26} \cup {Uppers[i] : i \in 1..26}

\* str.upper() on one character
UpperChar(c) ==
    IF \E i \in 1..Len(Lowers) : Lowers[i] = c
    THEN Uppers[CHOOSE i \in 1..Len(Lowers) : Lowers[i] = c]
    ELSE c

\* str.lower() on one character
LowerChar(c) ==
    IF \E i \in 1..Len(Uppers) : Uppers[i] = c
    THEN Lowers[CHOOSE i \in 1..Len(Uppers) : Uppers[i] = c]
    ELSE c

\* str.upper()
Upper(s) == [i \in 1..Len(s) |-> UpperChar(s[i])]

\* str.title() of a token of letters: first letter upper, the others lower
Title(s) == [i \in 1..Len(s) |-> IF i = 1 THEN UpperChar(s[i]) ELSE LowerChar(s[i])]

\* s[:n]
Prefix(s, n) == SubSeq(s, 1, IF n < Len(s) THEN n ELSE Len(s))

\* str.startswith(p)
StartsWith(s, p) == Len(s) >= Len(p) /\ SubSeq(s, 1, Len(p)) = p

\* str.replace(c, by) for a single character c; by is a str
RECURSIVE Replace(_, _, _)
Replace(s, c, by) ==
    IF s = <<>> THEN <<>>
    ELSE (IF Head(s) = c THEN by ELSE <<Head(s)>>) \o Replace(Tail(s), c, by)

\* str.splitlines(): lines end at "\n"; a final "\n" opens no empty last line
RECURSIVE SplitLines(_)
SplitLines(s) ==
    IF s = <<>> THEN <<>>
    ELSE LET nl == {i \in 1..Len(s) : s[i] = "\n"}
         IN  IF nl = {} THEN <<s>>
             ELSE LET p == CHOOSE i \in nl : \A j \in nl : i <= j
                  IN  <<SubSeq(s, 1, p - 1)>> \o SplitLines(SubSeq(s, p + 1, Len(s)))

\* "\n".join(parts)
RECURSIVE JoinLines(_)
JoinLines(parts) ==
    IF parts = <<>> THEN <<>>
    ELSE IF Len(parts) = 1 THEN parts[1]
    ELSE parts[1] \o <<"\n">> \o JoinLines(Tail(parts))

\* the first index >= i of s whose character is not in cs (Len(s)+1 if none):
\* the end of a greedy run cs* starting at i
RECURSIVE SpanEnd(_, _, _)
SpanEnd(s, i, cs) ==
    IF i <= Len(s) /\ s[i] \in cs THEN SpanEnd(s, i + 1, cs) ELSE i

\* the last index <= i of s whose character is not in cs (0 if none)
RECURSIVE SpanStart(_, _, _)
SpanStart(s, i, cs) ==
    IF i >= 1 /\ s[i] \in cs THEN SpanStart(s, i - 1, cs) ELSE i

\* str.strip()
Strip(s) == SubSeq(s, SpanEnd(s, 1, Whitespace), SpanStart(s, Len(s), Whitespace))

\* a literal of the pattern matched at index i under re.I (lit is lower case)
LitAt(s, i, lit) ==
    /\ i + Len(lit) - 1 <= Len(s)
    /\ \A k \in 1..Len(lit) : LowerChar(s[i + k - 1]) = lit[k]

\* re.split(r"\s{2,}", s): cut at every maximal run of two or more whitespace
RECURSIVE SplitWide(_, _, _)
SplitWide(s, i, part) ==
    IF i > Len(s) THEN <<part>>
    ELSE IF s[i] \in Whitespace
         THEN LET e == SpanEnd(s, i, Whitespace)
              IN  IF e - i >= 2
                  THEN <<part>> \o SplitWide(s, e, <<>>)
                  ELSE SplitWide(s, i + 1, Append(part, s[i]))
         ELSE SplitWide(s, i + 1, Append(part, s[i]))

(***************************************************************************)
(* Floats.                                                                 *)
(***************************************************************************)
Zero == <<0, 0>>

DigitVal(c) == (CHOOSE i \in 1..10 : Digits[i] = c) - 1

RECURSIVE DigitsVal(_, _)
DigitsVal(s, acc) ==
    IF s = <<>> THEN acc ELSE DigitsVal(Tail(s), 10 * acc + DigitVal(Head(s)))

RECURSIVE Canon(_, _)
Canon(n, k) == IF k > 0 /\ n % 10 = 0 THEN Canon(n \div 10, k - 1) ELSE <<n, k>>

\* float(t) for decimal literals [+-]? (digits [. digits*] | . digits); the
\* result is <<ok, value>>.  Exponents, "inf", "nan" and "_" are outside the
\* alphabet of the texts of this model.
ParseFloat(t) ==
    LET signed == t # <<>> /\ t[1] \in {"+", "-"}
        body   == IF signed THEN Tail(t) ELSE t
        dots   == {i \in 1..Len(body) : body[i] = "."}
        wellFormed ==
            /\ \A i \in 1..Len(body) : body[i] \in DigitSet \cup {"."}
            /\ Cardinality(dots) <= 1
            /\ \E i \in 1..Len(body) : body[i] \in DigitSet
        ds     == SelectSeq(body, LAMBDA c : c \in DigitSet)
        k      == IF dots = {} THEN 0 ELSE Len(body) - (CHOOSE i \in dots : TRUE)
        mag    == Canon(DigitsVal(ds, 0), k)
    IN  IF ~wellFormed THEN <<FALSE, Zero>>
        ELSE <<TRUE, IF signed /\ t[1] = "-" THEN <<0 - mag[1], mag[2]>> ELSE mag>>

\* normalizar_valor(txt) -> <<valor, ok>>
normalizar_valor(txt) ==
    LET t == Strip(txt)
    IN  IF t = <<>> \/ t \in {<<"-">>, <<"0", ",", "0", "0">>}
        THEN <<Zero, TRUE>>
        ELSE LET r == ParseFloat(Replace(Replace(t, ".", <<>>), ",", <<".">>))
             IN  IF r[1] THEN <<r[2], TRUE>> ELSE <<Zero, FALSE>>

(***************************************************************************)
(* The two regular expressions, each used with .search on one line.        *)
(***************************************************************************)
\* the characters [A-ZÇ] accepts under re.I
MonthChars == AsciiLetters \cup {"Ç", "ç"}

\* re_ref = Refer[eê]ncia[:\s]+([A-ZÇ]+)\/(\d{4}), re.I, matched at index i:
\* the classes of consecutive greedy runs are disjoint, so the greedy match is
\* the only one
RefSepEnd(ln, i) == SpanEnd(ln, i + 10, {":"} \cup Whitespace)

RefMonthEnd(ln, i) == SpanEnd(ln, RefSepEnd(ln, i), MonthChars)

RefMatchAt(ln, i) ==
    /\ LitAt(ln, i, <<"r","e","f","e","r">>)
    /\ i + 5 <= Len(ln) /\ LowerChar(ln[i + 5]) \in {"e", "ê"}
    /\ LitAt(ln, i + 6, <<"n","c","i","a">>)
    /\ RefSepEnd(ln, i) > i + 10
    /\ RefMonthEnd(ln, i) > RefSepEnd(ln, i)
    /\ RefMonthEnd(ln, i) + 4 <= Len(ln)
    /\ ln[RefMonthEnd(ln, i)] = "/"
    /\ \A k \in 1..4 : ln[RefMonthEnd(ln, i) + k] \in DigitSet

\* re_ref.search(ln) is not None
re_ref_found(ln) == \E i \in 1..Len(ln) : RefMatchAt(ln, i)

\* re_ref.search(ln).groups() = <<mes, ano>> of the leftmost match
re_ref(ln) ==
    LET i == CHOOSE a \in 1..Len(ln) :
                 RefMatchAt(ln, a) /\ \A b \in 1..(a - 1) : ~RefMatchAt(ln, b)
        m == RefMonthEnd(ln, i)
    IN  <<SubSeq(ln, RefSepEnd(ln, i), m - 1), SubSeq(ln, m + 1, m + 4)>>

\* re_fgts = BASE\s+CALC\.\s+FGTS\s+([\d\.,]+), re.I, matched at index i
FgtsCalcAt(ln, i) == SpanEnd(ln, i + 4, Whitespace)

FgtsFgtsAt(ln, i) == SpanEnd(ln, FgtsCalcAt(ln, i) + 5, Whitespace)

FgtsNumAt(ln, i) == SpanEnd(ln, FgtsFgtsAt(ln, i) + 4, Whitespace)

FgtsMatchAt(ln, i) ==
    /\ LitAt(ln, i, <<"b","a","s","e">>)
    /\ FgtsCalcAt(ln, i) > i + 4
    /\ LitAt(ln, FgtsCalcAt(ln, i), <<"c","a","l","c",".">>)
    /\ FgtsFgtsAt(ln, i) > FgtsCalcAt(ln, i) + 5
    /\ LitAt(ln, FgtsFgtsAt(ln, i), <<"f","g","t","s">>)
    /\ FgtsNumAt(ln, i) > FgtsFgtsAt(ln, i) + 4
    /\ FgtsNumAt(ln, i) <= Len(ln)
    /\ ln[FgtsNumAt(ln, i)] \in DigitSet \cup {".", ","}

\* re_fgts.search(ln) is not None
re_fgts_found(ln) == \E i \in 1..Len(ln) : FgtsMatchAt(ln, i)

\* re_fgts.search(ln).group(1) of the leftmost match
re_fgts(ln) ==
    LET i == CHOOSE a \in 1..Len(ln) :
                 FgtsMatchAt(ln, a) /\ \A b \in 1..(a - 1) : ~FgtsMatchAt(ln, b)
        n == FgtsNumAt(ln, i)
    IN  SubSeq(ln, n, SpanEnd(ln, n, DigitSet \cup {".", ","}) - 1)

(***************************************************************************)
(* extrair_recibo_texto                                                    *)
(***************************************************************************)
Descricao == <<"D","e","s","c","r","i","ç","ã","o">>

TotalProventos == <<"T","O","T","A","L"," ","D","E"," ","P","R","O","V","E","N","T","O","S">>

EmptyMap == [x \in {} |-> Zero]

\* proventos[desc] = valor
Put(d, key, val) == [x \in DOMAIN d \cup {key} |-> IF x = key THEN val ELSE d[x]]

\* "Mês/Ano": for ln in linhas[:8]: first line that re_ref finds; <<>> is None
MesAno(linhas) ==
    LET head == Prefix(linhas, 8)
        hits == {i \in 1..Len(head) : re_ref_found(head[i])}
    IN  IF hits = {} THEN <<>>
        ELSE LET g == re_ref(head[CHOOSE i \in hits : \A j \in hits : i <= j])
             IN  Title(Prefix(g[1], 3)) \o <<"/">> \o g[2]

\* ln.strip().startswith("Descrição")
IsDescricao(ln) == StartsWith(Strip(ln), Descricao)

\* ln.strip().startswith("TOTAL DE PROVENTOS")
IsTotal(ln) == StartsWith(Strip(ln), TotalProventos)

\* re.split(r"\s{2,}", ln.strip())
Partes(ln) == SplitWide(Strip(ln), 1, <<>>)

\* the loop without its break at "TOTAL DE PROVENTOS"
RECURSIVE ProventosSemFim(_, _, _, _, _, _)
ProventosSemFim(linhas, i, lendo, provs, avisos, mes_ano) ==
    IF i > Len(linhas) THEN <<provs, avisos>>
    ELSE LET ln == linhas[i]
             partes == Partes(ln)
             nv == normalizar_valor(partes[Len(partes)])
         IN  IF IsDescricao(ln)
             THEN ProventosSemFim(linhas, i + 1, TRUE, provs, avisos, mes_ano)
             ELSE IF lendo /\ Len(partes) >= 2
             THEN ProventosSemFim(linhas, i + 1, lendo, Put(provs, Upper(partes[1]), nv[1]),
                      IF nv[2] THEN avisos
                      ELSE Append(avisos, <<mes_ano, "valor nao lido", Upper(partes[1]),
                                            partes[Len(partes)]>>),
                      mes_ano)
             ELSE ProventosSemFim(linhas, i + 1, lendo, provs, avisos, mes_ano)

\* the "Proventos" loop from line i on, in state (lendo, proventos, avisos)
RECURSIVE Proventos(_, _, _, _, _, _)
Proventos(linhas, i, lendo, provs, avisos, mes_ano) ==
    IF i > Len(linhas) THEN <<provs, avisos>>
    ELSE LET ln == linhas[i]
         IN  IF IsDescricao(ln)
             THEN Proventos(linhas, i + 1, TRUE, provs, avisos, mes_ano)
             ELSE IF ~lendo
             THEN Proventos(linhas, i + 1, lendo, provs, avisos, mes_ano)
             ELSE IF IsTotal(ln) THEN <<provs, avisos>>
             ELSE LET partes == Partes(ln)
                  IN  IF Len(partes) >= 2
                      THEN LET desc == Upper(partes[1])
                               valor_txt == partes[Len(partes)]
                               nv == normalizar_valor(valor_txt)
                           IN  Proventos(linhas, i + 1, lendo, Put(provs, desc, nv[1]),
                                   IF nv[2] THEN avisos
                                   ELSE Append(avisos, <<mes_ano, "valor nao lido", desc, valor_txt>>),
                                   mes_ano)
                      ELSE Proventos(linhas, i + 1, lendo, provs, avisos, mes_ano)

\* the "FGTS" loop: for ln in reversed(linhas), first line re_fgts finds
Fgts(linhas, mes_ano) ==
    LET hits == {i \in 1..Len(linhas) : re_fgts_found(linhas[i])}
    IN  IF hits = {}
        THEN <<Zero, <<<<mes_ano, "Base FGTS nao encontrada">>>>>>
        ELSE LET txt == re_fgts(linhas[CHOOSE i \in hits : \A j \in hits : i >= j])
                 nv == normalizar_valor(txt)
             IN  <<nv[1], IF nv[2] THEN <<>>
                          ELSE <<<<mes_ano, "Base FGTS nao reconhecida", txt>>>>>>

\* extrair_recibo_texto(texto): found = FALSE is the None result
extrair_recibo_texto(texto) ==
    LET linhas == SplitLines(texto)
        mes_ano == MesAno(linhas)
    IN  IF mes_ano = <<>>
        THEN [found |-> FALSE, mes_ano |-> <<>>, proventos |-> EmptyMap,
              fgts_base |-> Zero, avisos |-> <<>>]
        ELSE LET p == Proventos(linhas, 1, FALSE, EmptyMap, <<>>, mes_ano)
                 f == Fgts(linhas, mes_ano)
             IN  [found |-> TRUE, mes_ano |-> mes_ano, proventos |-> p[1],
                  fgts_base |-> f[1], avisos |-> p[2] \o f[2]]

(***************************************************************************)
(* extract_pdf_adobe: the grouping of the response's elements by page.     *)
(***************************************************************************)
\* the elements' texts of page p, in response order
RECURSIVE TextsOfPage(_, _)
TextsOfPage(elements, p) ==
    IF elements = <<>> THEN <<>>
    ELSE (IF Head(elements).Page = p THEN <<Head(elements).Text>> ELSE <<>>)
         \o TextsOfPage(Tail(elements), p)

\* sorted(pages): the ascending sequence of a set of integers
RECURSIVE SortedInts(_)
SortedInts(S) ==
    IF S = {} THEN <<>>
    ELSE LET m == CHOOSE a \in S : \A b \in S : a <= b
         IN  <<m>> \o SortedInts(S \ {m})

\* textos = ["\n".join(pages[p]) for p in sorted(pages)]
extract_pdf_adobe(elements) ==
    LET ps == SortedInts({elements[i].Page : i \in 1..Len(elements)})
    IN  [k \in 1..Len(ps) |-> JoinLines(TextsOfPage(elements, ps[k]))]

(***************************************************************************)
(* The table: sorted(rubricas), the rows, pd.to_datetime, sort_values.     *)
(***************************************************************************)
\* the characters of the texts in code point order (Python compares str so)
CodeOrder == <<"\t","\n"," ","'","+",",","-",".","/",
               "0","1","2","3","4","5","6","7","8","9",":",
               "A","B","C","D","E","F","G","H","I","J","K","L","M","N","O","P",
               "Q","R","S","T","U","V","W","X","Y","Z",
               "a","b","c","d","e","f","g","h","i","j","k","l","m","n","o","p",
               "q","r","s","t","u","v","w","x","y","z",
               "Ã","Ç","Ê","ã","ç","ê">>

CodePoint(c) == CHOOSE i \in 1..Len(CodeOrder) : CodeOrder[i] = c

\* a < b for two str
RECURSIVE StrLess(_, _)
StrLess(a, b) ==
    IF b = <<>> THEN FALSE
    ELSE IF a = <<>> THEN TRUE
    ELSE IF Head(a) = Head(b) THEN StrLess(Tail(a), Tail(b))
    ELSE CodePoint(Head(a)) < CodePoint(Head(b))

\* sorted(rubricas)
RECURSIVE SortedStrs(_)
SortedStrs(S) ==
    IF S = {} THEN <<>>
    ELSE LET m == CHOOSE a \in S : \A b \in S \ {a} : StrLess(a, b)
         IN  <<m>> \o SortedStrs(S \ {m})

ColMesAno == <<"M","ê","s","/","A","n","o">>

ColBaseFgts == <<"B","a","s","e"," ","F","G","T","S">>

\* reg["Proventos"].get(rub, 0.0)
GetOr(d, key, default) == IF key \in DOMAIN d THEN d[key] ELSE default

\* linha = {"Mês/Ano": ..., "Base FGTS": ...}; linha[rub] = ... for each rub
RECURSIVE FillRubricas(_, _, _)
FillRubricas(linha, reg, rubs) ==
    IF rubs = <<>> THEN linha
    ELSE FillRubricas(Put(linha, Head(rubs), GetOr(reg.Proventos, Head(rubs), Zero)),
                      reg, Tail(rubs))

\* the row built from the record's own labels only, without the 0.0 default
MontaLinhaSemDefault(reg, rubs) ==
    FillRubricas(Put(Put(EmptyMap, ColMesAno, reg.MesAno), ColBaseFgts, reg.BaseFgts),
                 reg, SelectSeq(rubs, LAMBDA r : r \in DOMAIN reg.Proventos))

MontaLinha(reg, rubs) ==
    FillRubricas(Put(Put(EmptyMap, ColMesAno, reg.MesAno), ColBaseFgts, reg.BaseFgts),
                 reg, rubs)

\* the month names %b accepts: the process never calls setlocale, so LC_TIME
\* is "C" and the names are the English abbreviations, matched ignoring case
MonthAbbr == <<<<"j","a","n">>,
               <<"f","e","b">>,
               <<"m","a","r">>,
               <<"a","p","r">>,
               <<"m","a","y">>,
               <<"j","u","n">>,
               <<"j","u","l">>,
               <<"a","u","g">>,
               <<"s","e","p">>,
               <<"o","c","t">>,
               <<"n","o","v">>,
               <<"d","e","c">>>>

\* pd.to_datetime(s, format="%b/%Y"): <<ok, months since year 0>>; ok = FALSE
\* is the ValueError (no month name, or a date outside datetime64[ns])
to_datetime(s) ==
    LET mon == [i \in 1..Len(s) - 5 |-> LowerChar(s[i])]
        ok  == /\ Len(s) >= 6
               /\ s[Len(s) - 4] = "/"
               /\ \A k \in 0..3 : s[Len(s) - k] \in DigitSet
               /\ \E m \in 1..12 : MonthAbbr[m] = mon
        m   == CHOOSE m \in 1..12 : MonthAbbr[m] = mon
        ord == 12 * DigitsVal(SubSeq(s, Len(s) - 3, Len(s)), 0) + m
    IN  IF ok /\ ord >= 12 * 1677 + 10 /\ ord <= 12 * 2262 + 4
        THEN <<TRUE, ord>> ELSE <<FALSE, 0>>

\* df.sort_values("Data"): rows in ascending Data (an insertion sort; the rows'
\* dates are pairwise different, as their Mês/Ano are, so no tie is decided)
RECURSIVE InsertByData(_, _)
InsertByData(sorted, row) ==
    IF sorted = <<>> THEN <<row>>
    ELSE IF to_datetime(row[ColMesAno])[2] < to_datetime(Head(sorted)[ColMesAno])[2]
         THEN <<row>> \o sorted
         ELSE <<Head(sorted)>> \o InsertByData(Tail(sorted), row)

\* sort_values left out: the rows stay in the order of registros
SortByDataUnsorted(rows) == rows

RECURSIVE SortByData(_)
SortByData(rows) ==
    IF rows = <<>> THEN <<>>
    ELSE InsertByData(SortByData(SubSeq(rows, 1, Len(rows) - 1)), rows[Len(rows)])

EmptyDataFrame == [columns |-> <<>>, rows |-> <<>>]

\* lines 198-210: <<raised, df>>
MontaDataFrame(regs, rubricas_set) ==
    LET rubs   == SortedStrs(rubricas_set)
        linhas == [i \in 1..Len(regs) |-> MontaLinha(regs[i], rubs)]
    IN  IF \E i \in 1..Len(linhas) : ~to_datetime(linhas[i][ColMesAno])[1]
        THEN <<TRUE, EmptyDataFrame>>
        ELSE <<FALSE, [columns |-> <<ColMesAno>> \o rubs \o <<ColBaseFgts>>,
                       rows |-> SortByData(linhas)]>>

(***************************************************************************)
(* The inputs of processar_pdf.                                            *)
(***************************************************************************)
MaxPages == 2

\* page texts: a payslip of Jan/2024, a second one of the same period with
\* other amounts and no FGTS line, one of Mar/2023, one of "MAIO/2024", and a
\* cover page without header
TxJan == <<"R","e","f","e","r","ê","n","c","i","a",":"," ","J","A","N","/","2","0","2","4","\n","D","e","s","c","r","i","ç","ã","o","\n","S","A","L"," "," ","1","0",",","0","0","\n","B","A","S","E"," ","C","A","L","C","."," ","F","G","T","S"," ","1","0",",","0","0">>

TxJanBis == <<"R","e","f","e","r","ê","n","c","i","a",":"," ","J","A","N","/","2","0","2","4","\n","D","e","s","c","r","i","ç","ã","o","\n","S","A","L"," "," ","2","0",",","0","0","\n","B","O","N"," "," ","5",",","0","0">>

TxMar == <<"R","e","f","e","r","ê","n","c","i","a",":"," ","M","A","R","/","2","0","2","3","\n","D","e","s","c","r","i","ç","ã","o","\n","B","O","N"," "," ","7",",","5","0","\n","B","A","S","E"," ","C","A","L","C","."," ","F","G","T","S"," ","7",",","5","0">>

TxMaio == <<"R","e","f","e","r","ê","n","c","i","a",":"," ","M","A","I","O","/","2","0","2","4","\n","D","e","s","c","r","i","ç","ã","o","\n","S","A","L"," "," ","1",",","0","0">>

TxCapa == <<"C","a","p","a">>

TxBlank == <<" ", " ">>

\* two fragments of one page, as the remote service returns elements
TxFragRef == <<"R","e","f","e","r","ê","n","c","i","a",":"," ","J","A","N","/","2","0","2","4">>

TxFragTab == <<"D","e","s","c","r","i","ç","ã","o","\n","S","A","L"," "," ","1","0",",","0","0">>

\* a page of the local document: what page.extract_text() returns (<<>> for
\* None or "") and what OCR of its image returns
Pg(native, ocr) == [native |-> native, ocr |-> ocr]

PageKinds == { Pg(TxJan, <<>>), Pg(TxJanBis, <<>>), Pg(TxMar, <<>>), Pg(TxMaio, <<>>),
               Pg(TxCapa, <<>>), Pg(<<>>, TxMar), Pg(TxBlank, TxJan) }

SeqsUpTo(S, n) == UNION {[1..k -> S] : k \in 1..n}

\* an element of the remote response
El(page, text) == [Page |-> page, Text |-> text]

\* the outcomes of the remote call: an exception, or a list of elements
RemoteRaises == [raises |-> TRUE, elements |-> <<>>]

RemoteReturns(elements) == [raises |-> FALSE, elements |-> elements]

RemoteOutcomes ==
    { RemoteRaises,
      RemoteReturns(<<>>),
      RemoteReturns(<<El(1, TxCapa)>>),
      RemoteReturns(<<El(1, TxJan), El(2, TxMar)>>),
      RemoteReturns(<<El(2, TxMar)>>),
      RemoteReturns(<<El(2, TxMar), El(1, TxFragRef), El(1, TxFragTab)>>),
      RemoteReturns(<<El(1, TxMaio)>>),
      RemoteReturns(<<El(1, TxJanBis), El(2, TxJan)>>) }

\* the uploaded file: whether pdfplumber opens it, its pages, and what the
\* remote service answers for it
Files ==
    [openable : {TRUE}, pages : SeqsUpTo(PageKinds, MaxPages), remote : RemoteOutcomes]
    \cup [openable : {FALSE}, pages : {<<>>}, remote : RemoteOutcomes]

PageStarts == 0..2

PageEnds == 1..(MaxPages + 1)

(***************************************************************************)
(* State.                                                                  *)
(***************************************************************************)
VARIABLES
    pc,             \* where processar_pdf is
    file_bytes,     \* its argument (an element of Files)
    arg_ini,        \* the page range as the caller passed it
    arg_fim,
    pagina_ini,     \* the local variables pagina_ini, pagina_fim
    pagina_fim,
    textos,
    registros,
    rubricas,
    avisos_totais,
    idx,
    df,             \* the DataFrame returned
    parsed,         \* history: the pages parsed, in order
    fases,          \* history: the passes begun, in order
    now,            \* time.time()
    cache,          \* the lru_cache slot of _cached_token
    issued,         \* history: the tokens granted, [at, life], by token number
    calls,          \* history: the get_access_token calls, in order
    texto,          \* the argument of extrair_recibo_texto
    resultado       \* its result

pdfVars == <<pc, file_bytes, arg_ini, arg_fim, pagina_ini, pagina_fim, textos,
             registros, rubricas, avisos_totais, idx, df, parsed, fases>>

tokenVars == <<now, cache, issued, calls>>

parseVars == <<texto, resultado>>

vars == <<pdfVars, tokenVars, parseVars>>

(***************************************************************************)
(* processar_pdf                                                           *)
(***************************************************************************)
Max(a, b) == IF a >= b THEN a ELSE b

Min(a, b) == IF a <= b THEN a ELSE b

NoResult == [found |-> FALSE, mes_ano |-> <<>>, proventos |-> EmptyMap,
             fgts_base |-> Zero, avisos |-> <<>>]

TokenIdle == now = 0 /\ cache = [valid |-> FALSE, token |-> 0, exp |-> 0]
             /\ issued = <<>> /\ calls = <<>>

ParseIdle == texto = <<>> /\ resultado = [done |-> FALSE, value |-> NoResult]

PdfIdle ==
    /\ pc = "idle" /\ file_bytes = [openable |-> FALSE, pages |-> <<>>, remote |-> RemoteRaises]
    /\ arg_ini = 0 /\ arg_fim = 0 /\ pagina_ini = 0 /\ pagina_fim = 0
    /\ textos = <<>> /\ registros = <<>> /\ rubricas = {} /\ avisos_totais = <<>>
    /\ idx = 0 /\ df = EmptyDataFrame /\ parsed = <<>> /\ fases = <<>>

\* a call processar_pdf(file_bytes, pagina_ini, pagina_fim) is about to run
Init ==
    /\ pc = "start"
    /\ file_bytes \in Files
    /\ arg_ini \in PageStarts
    /\ arg_fim \in PageEnds
    /\ pagina_ini = arg_ini
    /\ pagina_fim = arg_fim
    /\ textos = <<>> /\ registros = <<>> /\ rubricas = {} /\ avisos_totais = <<>>
    /\ idx = 0 /\ df = EmptyDataFrame /\ parsed = <<>> /\ fases = <<>>
    /\ TokenIdle /\ ParseIdle

\* any(r["Mês/Ano"] == mes_ano for r in registros)
JaRegistrado(regs, mes_ano) == \E i \in 1..Len(regs) : regs[i].MesAno = mes_ano

\* lines 163-171 and 184-192: what one parsed page does to the three accumulators
Registrar(res) ==
    IF res.found /\ ~JaRegistrado(registros, res.mes_ano)
    THEN /\ rubricas' = rubricas \cup DOMAIN res.proventos
         /\ registros' = Append(registros, [MesAno |-> res.mes_ano,
                                            Proventos |-> res.proventos,
                                            BaseFgts |-> res.fgts_base])
         /\ avisos_totais' = avisos_totais \o res.avisos
    ELSE UNCHANGED <<registros, rubricas, avisos_totais>>

Visit(fase, text, ocr) ==
    parsed' = Append(parsed, [fase |-> fase, pagina |-> idx + 1, texto |-> text, ocr |-> ocr])

\* lines 149-160: the remote call, and the clamping of the range to its pages
Adobe ==
    /\ pc = "start"
    /\ textos' = IF file_bytes.remote.raises THEN <<>>
                 ELSE extract_pdf_adobe(file_bytes.remote.elements)
    /\ IF textos' # <<>>
       THEN /\ pagina_ini' = Max(1, pagina_ini)
            /\ pagina_fim' = Min(Len(textos'), pagina_fim)
            /\ idx' = pagina_ini' - 1
            /\ pc' = "adobe_loop"
       ELSE /\ pc' = "fallback"
            /\ UNCHANGED <<pagina_ini, pagina_fim, idx>>
    /\ fases' = Append(fases, "adobe")
    /\ UNCHANGED <<file_bytes, arg_ini, arg_fim, registros, rubricas, avisos_totais,
                   df, parsed, tokenVars, parseVars>>

\* lines 161-171: one turn of the loop over the remote texts
AdobePage ==
    /\ pc = "adobe_loop" /\ idx < pagina_fim
    /\ Registrar(extrair_recibo_texto(textos[idx + 1]))
    /\ Visit("adobe", textos[idx + 1], FALSE)
    /\ idx' = idx + 1
    /\ UNCHANGED <<pc, file_bytes, arg_ini, arg_fim, pagina_ini, pagina_fim, textos,
                   df, fases, tokenVars, parseVars>>

AdobeEnd ==
    /\ pc = "adobe_loop" /\ idx >= pagina_fim
    /\ pc' = "fallback"
    /\ UNCHANGED <<file_bytes, arg_ini, arg_fim, pagina_ini, pagina_fim, textos,
                   registros, rubricas, avisos_totais, idx, df, parsed,
                   fases, tokenVars, parseVars>>

\* the fallback run unconditionally
NeedsFallbackAlways(regs) == TRUE

\* line 174: if not registros
NeedsFallback(regs) == regs = <<>>

\* lines 174-178: the fallback test, pdfplumber.open, and the clamping
Fallback ==
    /\ pc = "fallback"
    /\ IF ~NeedsFallback(registros)
       THEN pc' = "montar" /\ UNCHANGED <<pagina_ini, pagina_fim, idx, fases>>
       ELSE /\ fases' = Append(fases, "local")
            /\ IF ~file_bytes.openable
               THEN pc' = "raised" /\ UNCHANGED <<pagina_ini, pagina_fim, idx>>
               ELSE /\ pagina_ini' = Max(1, pagina_ini)
                    /\ pagina_fim' = Min(Len(file_bytes.pages), pagina_fim)
                    /\ idx' = pagina_ini' - 1
                    /\ pc' = "local_loop"
    /\ UNCHANGED <<file_bytes, arg_ini, arg_fim, textos, registros, rubricas,
                   avisos_totais, df, parsed, tokenVars, parseVars>>

\* line 182: page.extract_text() or pytesseract.image_to_string(...); the
\* result is <<texto, whether OCR ran>>
TextoDaPagina(page) ==
    IF page.native # <<>> THEN <<page.native, FALSE>> ELSE <<page.ocr, TRUE>>

\* lines 179-192: one turn of the loop over the local pages
LocalPage ==
    /\ pc = "local_loop" /\ idx < pagina_fim
    /\ LET t == TextoDaPagina(file_bytes.pages[idx + 1])
       IN  /\ Registrar(extrair_recibo_texto(t[1]))
           /\ Visit("local", t[1], t[2])
    /\ idx' = idx + 1
    /\ UNCHANGED <<pc, file_bytes, arg_ini, arg_fim, pagina_ini, pagina_fim, textos,
                   df, fases, tokenVars, parseVars>>

LocalEnd ==
    /\ pc = "local_loop" /\ idx >= pagina_fim
    /\ pc' = "montar"
    /\ UNCHANGED <<file_bytes, arg_ini, arg_fim, pagina_ini, pagina_fim, textos,
                   registros, rubricas, avisos_totais, idx, df, parsed,
                   fases, tokenVars, parseVars>>

\* lines 194-210: the empty table, or the table built from registros
Montar ==
    /\ pc = "montar"
    /\ IF registros = <<>>
       THEN pc' = "done" /\ df' = EmptyDataFrame
       ELSE LET r == MontaDataFrame(registros, rubricas)
            IN  /\ pc' = IF r[1] THEN "raised" ELSE "done"
                /\ df' = r[2]
    /\ UNCHANGED <<file_bytes, arg_ini, arg_fim, pagina_ini, pagina_fim, textos,
                   registros, rubricas, avisos_totais, idx, parsed, fases,
                   tokenVars, parseVars>>

Next == Adobe \/ AdobePage \/ AdobeEnd \/ Fallback \/ LocalPage \/ LocalEnd \/ Montar

Spec == Init /\ [][Next]_vars

(***************************************************************************)
(* What the inputs of the call determine, for the properties below.        *)
(***************************************************************************)
\* the pages max(1, pageStart) .. min(pageEnd, n), from the caller's values
ClampedRange(n) == Max(1, arg_ini) .. Min(arg_fim, n)

\* the same pages as an ascending sequence
ClampedSeq(n) ==
    [k \in 1..Max(0, Min(arg_fim, n) - Max(1, arg_ini) + 1) |-> Max(1, arg_ini) + k - 1]

\* the remote text list, and the local one
RemoteTexts ==
    IF file_bytes.remote.raises THEN <<>> ELSE extract_pdf_adobe(file_bytes.remote.elements)

LocalTexts == [p \in 1..Len(file_bytes.pages) |-> TextoDaPagina(file_bytes.pages[p])[1]]

\* the pages of a text list, within the clamped range, where the parser finds a record
PagesWithRecord(texts) ==
    {p \in ClampedRange(Len(texts)) : extrair_recibo_texto(texts[p]).found}

\* the remote pass ends with zero records: the call raised, it returned no
\* page text, or no page of the range holds a record
RemoteZero == PagesWithRecord(RemoteTexts) = {}

\* the text source of the pass the table comes from
SourceTexts == IF RemoteZero THEN LocalTexts ELSE RemoteTexts

PeriodKeys(texts) == {extrair_recibo_texto(texts[p]).mes_ano : p \in PagesWithRecord(texts)}

\* the first page of the range, in page order, with PeriodKey k
FirstPage(texts, k) ==
    CHOOSE p \in PagesWithRecord(texts) :
        /\ extrair_recibo_texto(texts[p]).mes_ano = k
        /\ \A q \in PagesWithRecord(texts) :
               extrair_recibo_texto(texts[q]).mes_ano = k => p <= q

RowKeys == {df.rows[i][ColMesAno] : i \in 1..Len(df.rows)}

\* the pages a pass parsed, in the order it parsed them
RECURSIVE PagesOf(_, _)
PagesOf(visits, fase) ==
    IF visits = <<>> THEN <<>>
    ELSE (IF Head(visits).fase = fase THEN <<Head(visits).pagina>> ELSE <<>>)
         \o PagesOf(Tail(visits), fase)

AdobeOver == pc \notin {"start", "adobe_loop"}

LocalRan == \E i \in 1..Len(fases) : fases[i] = "local"

LocalOver == LocalRan /\ file_bytes.openable /\ pc \in {"montar", "done", "raised"}

\* the record of registros a row of the table comes from
RegOf(row) == registros[CHOOSE i \in 1..Len(registros) : registros[i].MesAno = row[ColMesAno]]

AllLabels == UNION {DOMAIN registros[i].Proventos : i \in 1..Len(registros)}

(***************************************************************************)
(* Properties of processar_pdf, checked under Spec.                        *)
(***************************************************************************)
\* C1: the returned table has exactly one row per distinct PeriodKey found
\* among the pages of the clamped range, and a row's earnings and tax base are
\* those of the first page of the range with its PeriodKey.
C1_Dedup ==
    pc = "done" =>
        /\ Len(df.rows) = Cardinality(PeriodKeys(SourceTexts))
        /\ RowKeys = PeriodKeys(SourceTexts)
        /\ \A i \in 1..Len(df.rows) :
               LET r == extrair_recibo_texto(
                            SourceTexts[FirstPage(SourceTexts, df.rows[i][ColMesAno])])
               IN  /\ df.rows[i][ColBaseFgts] = r.fgts_base
                   /\ \A l \in DOMAIN r.proventos :
                          l \in DOMAIN df.rows[i] /\ df.rows[i][l] = r.proventos[l]

\* C2: in the returned table, the calendar dates of adjacent rows are in
\* ascending order, whatever the order of the periods in the pages.
C2_Chronological ==
    pc = "done" =>
        \A i \in 1..(Len(df.rows) - 1) :
            /\ to_datetime(df.rows[i][ColMesAno])[1]
            /\ to_datetime(df.rows[i + 1][ColMesAno])[1]
            /\ to_datetime(df.rows[i][ColMesAno])[2] <= to_datetime(df.rows[i + 1][ColMesAno])[2]

\* a table of two rows or more whose first row is not the first record found
C2_Witness ==
    /\ pc = "done" /\ Len(df.rows) >= 2
    /\ df.rows[1][ColMesAno] # registros[1].MesAno

\* C3: a non-empty returned table has the columns period, the labels of all
\* records in ascending alphabetical order, tax base; and every row has, for
\* every label, its record's amount, or 0.0 when its record lacks the label.
C3_Schema ==
    (pc = "done" /\ df.rows # <<>>) =>
        LET n == Len(df.columns)
        IN  /\ n = Cardinality(AllLabels) + 2
            /\ df.columns[1] = ColMesAno
            /\ df.columns[n] = ColBaseFgts
            /\ {df.columns[j] : j \in 2..(n - 1)} = AllLabels
            /\ \A j \in 2..(n - 2) : StrLess(df.columns[j], df.columns[j + 1])
            /\ \A i \in 1..Len(df.rows) : \A l \in AllLabels :
                   /\ l \in DOMAIN df.rows[i]
                   /\ df.rows[i][l][1] \in Int /\ df.rows[i][l][2] \in Nat
                   /\ df.rows[i][l] = IF l \in DOMAIN RegOf(df.rows[i]).Proventos
                                      THEN RegOf(df.rows[i]).Proventos[l] ELSE Zero

\* a returned table with a cell filled with 0.0 for a label its record lacks
C3_Witness ==
    /\ pc = "done" /\ Len(df.rows) >= 2
    /\ \E i \in 1..Len(df.rows) : \E l \in AllLabels :
           l \notin DOMAIN RegOf(df.rows[i]).Proventos /\ df.rows[i][l] = Zero

\* C4: the remote extraction is attempted first; the local pass is run exactly
\* when the remote pass ended with zero records, and then the table holds what
\* the local pass found; otherwise no page is parsed locally and every row
\* comes from the remote texts.
C4_Fallback ==
    /\ fases # <<>> => fases[1] = "adobe"
    /\ pc # "start" => fases # <<>>
    /\ PagesOf(parsed, "local") # <<>> => LocalRan
    /\ pc \in {"montar", "done", "raised"} =>
           LET zero == RemoteZero
               from == IF zero THEN "local" ELSE "adobe"
           IN  /\ LocalRan <=> zero
               /\ pc = "done" =>
                      RowKeys = {extrair_recibo_texto(parsed[i].texto).mes_ano :
                                   i \in {j \in 1..Len(parsed) :
                                            /\ parsed[j].fase = from
                                            /\ extrair_recibo_texto(parsed[j].texto).found}}

\* the remote call returned text without any record and the local pass found one
C4_Witness ==
    /\ pc = "done" /\ textos # <<>> /\ LocalRan /\ df.rows # <<>>
    /\ PagesOf(parsed, "adobe") # <<>>

\* C5: each pass parses exactly the pages max(1, pageStart) .. min(pageEnd, N)
\* in ascending order, pageStart and pageEnd being the caller's values and N
\* the page count of the pass's own text source.
C5_Range ==
    /\ AdobeOver => PagesOf(parsed, "adobe") = ClampedSeq(Len(textos))
    /\ LocalOver => PagesOf(parsed, "local") = ClampedSeq(Len(file_bytes.pages))

\* C7: processar_pdf raises only when the document cannot be opened, and
\* returns an empty table when it finds no record.
C7_RaisesOnlyCorrupt ==
    /\ pc = "raised" => ~file_bytes.openable
    /\ (pc = "done" /\ registros = <<>>) => df = EmptyDataFrame

\* C8: the text parsed for page p in the remote pass is the concatenation, in
\* response order, of exactly the elements tagged with page number p.
C8_RemotePageText ==
    \A i \in 1..Len(parsed) :
        parsed[i].fase = "adobe" =>
            parsed[i].texto = JoinLines(TextsOfPage(file_bytes.remote.elements, parsed[i].pagina))

\* C9: in the local pass the parser gets the native text when it is non-empty
\* after trimming and the OCR output otherwise; OCR runs exactly for the pages
\* whose native text is missing, empty or whitespace-only.
C9_OcrWhenBlank ==
    \A i \in 1..Len(parsed) :
        parsed[i].fase = "local" =>
            LET pg == file_bytes.pages[parsed[i].pagina]
            IN  /\ parsed[i].ocr <=> (Strip(pg.native) = <<>>)
                /\ parsed[i].texto = IF Strip(pg.native) # <<>> THEN pg.native ELSE pg.ocr

(***************************************************************************)
(* get_access_token and the lru_cache slot of _cached_token.               *)
(***************************************************************************)
Margin == 60

MaxNow == 240

MaxCalls == 3

\* expires_in of a granted token, and the seconds a request takes
Lifetimes == {30, 90}

Delays == {0, 30}

\* what a request to the token endpoint does: it raises, or grants a token
Outcomes ==
    [ok : {TRUE}, d : Delays, life : Lifetimes] \cup [ok : {FALSE}, d : Delays, life : {0}]

\* the outcomes to draw for a request: one only when no request is made
Drawn(needed) == IF needed THEN Outcomes ELSE {[ok |-> FALSE, d |-> 0, life |-> 0]}

\* line 40: time.time() + resp["expires_in"] - 60
Expiracao(t, expires_in) == t + expires_in - Margin

\* a cached token checked exactly at its expiry counted as expired
ExpirouNoLimite(t, exp) == t >= exp

\* line 44: time.time() > exp
Expirou(t, exp) == t > exp

NoToken == [valid |-> FALSE, token |-> 0, exp |-> 0]

\* _cached_token() at time t with the slot c and n tokens granted so far:
\* the slot's value without a request, or one request with outcome o; the
\* result is [raised, c, t, grants]
cached_token(c, t, n, o) ==
    IF c.valid THEN [raised |-> FALSE, c |-> c, t |-> t, grants |-> <<>>, reqs |-> 0]
    ELSE IF ~o.ok THEN [raised |-> TRUE, c |-> NoToken, t |-> t + o.d, grants |-> <<>>, reqs |-> 1]
    ELSE [raised |-> FALSE,
          c |-> [valid |-> TRUE, token |-> n + 1, exp |-> Expiracao(t + o.d, o.life)],
          t |-> t + o.d, grants |-> <<[at |-> t + o.d, life |-> o.life]>>, reqs |-> 1]

InitToken ==
    /\ TokenIdle /\ ParseIdle /\ PdfIdle

\* time passes between two calls
Tick ==
    /\ \E d \in {30, 60} : now + d <= MaxNow /\ now' = now + d
    /\ UNCHANGED <<cache, issued, calls, pdfVars, parseVars>>

\* lines 42-47, one call: o1 and o2 are the outcomes of the requests it makes
get_access_token ==
    /\ Len(calls) < MaxCalls
    /\ \E o1 \in Drawn(~cache.valid) :
        LET r1 == cached_token(cache, now, Len(issued), o1)
            expired == ~r1.raised /\ Expirou(r1.t, r1.c.exp)
        IN  \E o2 \in Drawn(expired) :
        LET r2 == IF expired
                  THEN cached_token(NoToken, r1.t, Len(issued) + Len(r1.grants), o2)
                  ELSE r1
        IN  /\ cache' = r2.c
            /\ now' = r2.t
            /\ issued' = issued \o r1.grants \o (IF expired THEN r2.grants ELSE <<>>)
            /\ calls' = Append(calls,
                   [t |-> r1.t, before |-> cache, after |-> r2.c,
                    reqs |-> r1.reqs + (IF expired THEN r2.reqs ELSE 0),
                    raised |-> r2.raised,
                    ret |-> IF r2.raised THEN 0 ELSE r2.c.token])
    /\ UNCHANGED <<pdfVars, parseVars>>

NextToken == Tick \/ get_access_token

SpecToken == InitToken /\ [][NextToken]_vars

\* C6: over the calls of get_access_token, the token endpoint is contacted
\* exactly when no token is cached or the time is past the cached token's
\* issue time + lifetime - 60 s; otherwise the cached token is returned
\* unchanged without a request; a reacquired token replaces the old one.
C6_TokenCache ==
    \A k \in 1..Len(calls) :
        LET c == calls[k]
            expired == c.t > issued[c.before.token].at + issued[c.before.token].life - 60
        IN  /\ (c.reqs > 0) <=> (~c.before.valid \/ expired)
            /\ c.reqs = 0 => (~c.raised /\ c.ret = c.before.token /\ c.after = c.before)
            /\ (c.reqs > 0 /\ ~c.raised) =>
                   /\ c.after.valid /\ c.after.token = c.ret
                   /\ c.ret > c.before.token
                   /\ c.after.exp = issued[c.ret].at + issued[c.ret].life - 60

\* one call reused the cached token and a later one replaced it once expired
C6_Witness ==
    \E j, k \in 1..Len(calls) :
        /\ j < k
        /\ calls[j].before.valid /\ calls[j].reqs = 0
        /\ calls[k].before.valid /\ calls[k].reqs > 0 /\ ~calls[k].raised
        /\ calls[k].before.token = calls[j].ret

(***************************************************************************)
(* extrair_recibo_texto on its own: texts of a first line and MaxLines     *)
(* lines at most.                                                          *)
(***************************************************************************)
MaxLines == 4

\* the table header with a second column, an earnings line, one with an
\* unreadable amount, the end marker, a line of one part, and a line whose
\* label differs from "SAL" by its case only
LnHeader == <<"D","e","s","c","r","i","ç","ã","o"," "," ","V","a","l","o","r">>

LnSal == <<"S","A","L"," "," ","1","0",",","0","0">>

LnBon == <<" ","B","O","N"," "," ","1"," "," ","x">>

LnTotal == <<"T","O","T","A","L"," ","D","E"," ","P","R","O","V","E","N","T","O","S"," "," ","1","0",",","0","0">>

LnSolo == <<"T","o","t","a","l"," ","d","e"," ","p","r","o","v","e","n","t","o","s">>

LnSalBis == <<"s","a","l"," "," "," ","3",",","0","0"," ">>

LineCatalog == {LnHeader, LnSal, LnBon, LnTotal, LnSolo, LnSalBis}

FirstLines == {TxFragRef, TxCapa}

InitParse ==
    /\ texto \in {JoinLines(<<f>> \o ls) : f \in FirstLines, ls \in SeqsUpTo(LineCatalog, MaxLines)}
    /\ resultado = [done |-> FALSE, value |-> NoResult]
    /\ TokenIdle /\ PdfIdle

\* one call extrair_recibo_texto(texto)
Extrair ==
    /\ ~resultado.done
    /\ resultado' = [done |-> TRUE, value |-> extrair_recibo_texto(texto)]
    /\ UNCHANGED <<texto, pdfVars, tokenVars>>

NextParse == Extrair

SpecParse == InitParse /\ [][NextParse]_vars

\* the lines of the text, the table start line and the end marker after it
Ls == SplitLines(texto)

StartLines == {i \in 1..Len(Ls) : StartsWith(Strip(Ls[i]), Descricao)}

StartLine == CHOOSE i \in StartLines : \A j \in StartLines : i <= j

EndLines == {i \in 1..Len(Ls) : i > StartLine /\ StartsWith(Strip(Ls[i]), TotalProventos)}

EndLine == IF EndLines = {} THEN Len(Ls) + 1 ELSE CHOOSE i \in EndLines : \A j \in EndLines : i <= j

\* the lines strictly between the two that split into two parts or more
Between ==
    IF StartLines = {} THEN {}
    ELSE {i \in (StartLine + 1)..(EndLine - 1) : Len(Partes(Ls[i])) >= 2}

LabelOf(i) == Upper(Partes(Ls[i])[1])

RawOf(i) == Partes(Ls[i])[Len(Partes(Ls[i]))]

\* the entries the lines C contribute, a later line of a label replacing an earlier one
EntriesOf(C) ==
    [l \in {LabelOf(i) : i \in C} |->
        normalizar_valor(RawOf(CHOOSE i \in C : LabelOf(i) = l /\
                                   \A j \in C : LabelOf(j) = l => j <= i))[1]]

\* the warnings the lines C contribute, in line order
RECURSIVE WarningsOf(_, _, _)
WarningsOf(C, i, mes_ano) ==
    IF i > Len(Ls) THEN <<>>
    ELSE (IF i \in C /\ ~normalizar_valor(RawOf(i))[2]
          THEN <<<<mes_ano, "valor nao lido", LabelOf(i), RawOf(i)>>>> ELSE <<>>)
         \o WarningsOf(C, i + 1, mes_ano)

AmountWarnings(avisos) == SelectSeq(avisos, LAMBDA a : a[2] = "valor nao lido")

ContributedBy(C) ==
    (resultado.done /\ resultado.value.found) =>
        /\ resultado.value.proventos = EntriesOf(C)
        /\ AmountWarnings(resultado.value.avisos) = WarningsOf(C, 1, resultado.value.mes_ano)

\* C10 as stated: the earnings entries and amount warnings of a text with a
\* period header come from exactly the lines strictly between the table start
\* line and the first following "TOTAL DE PROVENTOS" line (or the end of the
\* text) that split into at least 2 parts.
C10_TableLines == ContributedBy(Between)

\* C10 amended: the same, except that a line between the two whose trimmed
\* content starts with the description header contributes nothing either.
C10_TableLinesAmended ==
    ContributedBy({i \in Between : ~StartsWith(Strip(Ls[i]), Descricao)})

\* a text parsed whose table holds an entry, with a line of two parts before
\* the start line and one at or after the end marker
C10_Witness ==
    /\ resultado.done /\ resultado.value.found
    /\ Between # {}
    /\ \E i \in 1..Len(Ls) : i < StartLine /\ Len(Partes(Ls[i])) >= 2
    /\ \E i \in 1..Len(Ls) : i >= EndLine /\ Len(Partes(Ls[i])) >= 2

=============================================================================
